---- MODULE Spec2Model ----
(***************************************************************************)
(* OPD token allocation engine: AllocationService, ReallocationService,    *)
(* QueueManager, PriorityManager, TimeSlot, Token and the DataStore, as    *)
(* wired by app/api/routes.py (one AllocationService and one               *)
(* ReallocationService, each owning its own QueueManager).                 *)
(***************************************************************************)
EXTENDS Integers, Sequences, FiniteSets, TLC

\* ---------------------------------------------------------------- bounds
MaxTokens == 3        \* tokens ever created
MaxCapacity == 2      \* largest max_capacity a slot is created with
MaxQueue == 3         \* entries of one waitlist, when the queue manager runs alone
MaxClock == 3         \* clock readings, when the queue manager runs alone

\* Python's None, for optional integers (ids, numbers, positions, times)
None == -1

\* ------------------------------------------------------------ config.py
EMERGENCY_LEVEL == 1
PAID_PRIORITY_LEVEL == 2
FOLLOW_UP_LEVEL == 3
ONLINE_BOOKING_LEVEL == 4
WALK_IN_LEVEL == 5
UNKNOWN_SOURCE_LEVEL == 999
AVERAGE_CONSULTATION_MINUTES == 5
\* strftime('%H:%M') keeps the time of day only
MinutesPerDay == 24 * 60

TOKEN_SOURCES == {"EMERGENCY", "PAID_PRIORITY", "FOLLOW_UP", "ONLINE_BOOKING", "WALK_IN"}

PRIORITY_LEVELS ==
    [s \in TOKEN_SOURCES |->
        CASE s = "EMERGENCY" -> EMERGENCY_LEVEL
          [] s = "PAID_PRIORITY" -> PAID_PRIORITY_LEVEL
          [] s = "FOLLOW_UP" -> FOLLOW_UP_LEVEL
          [] s = "ONLINE_BOOKING" -> ONLINE_BOOKING_LEVEL
          [] s = "WALK_IN" -> WALK_IN_LEVEL]

\* ------------------------------------------------------ request inputs
\* the doctor's time slots and the phone numbers that requests carry
Slots == {1, 2}
Phones == {1, 2}
TokenIds == 1..MaxTokens
Doctors == {"D1"}
RequestDoctors == {"D1", "DX"}
RequestSources == {"WALK_IN", "BOGUS"}
\* start_time of slot s, in minutes after midnight (09:00, 10:00, ...)
SlotStart(s) == 540 + 60 * (s - 1)
\* a start time at which the doctor has no slot
MissingTime == SlotStart(1) - 60
RequestTimes == {SlotStart(s) : s \in Slots} \cup {MissingTime}

VARIABLES
    tokens,        \* db.tokens: token id (index) -> Token
    slots,         \* db.time_slots: slot id -> TimeSlot
    patients,      \* db.patients: patient id (index) -> Patient
    alloc_waitlists,    \* allocation_service.queue_manager.waitlists
    realloc_waitlists,  \* reallocation_service.queue_manager.waitlists
    now,           \* the wall clock read by datetime.now()
    result,        \* what the last engine call returned or raised
    threads        \* request threads of the server: where each one stands
                   \* in its call and the locals it holds

vars == <<tokens, slots, patients, alloc_waitlists, realloc_waitlists, now, result,
          threads>>

\* ------------------------------------------------------ python helpers
Contains(seq, x) == \E i \in 1..Len(seq) : seq[i] = x

\* list.remove(x): drops the first occurrence
ListRemove(seq, x) ==
    IF Contains(seq, x)
    THEN LET i == CHOOSE k \in 1..Len(seq) :
                     seq[k] = x /\ \A j \in 1..(k - 1) : seq[j] # x
         IN SubSeq(seq, 1, i - 1) \o SubSeq(seq, i + 1, Len(seq))
    ELSE seq

\* index of the first occurrence (1-indexed), None when absent
IndexOf(seq, x) ==
    IF Contains(seq, x)
    THEN CHOOSE k \in 1..Len(seq) : seq[k] = x /\ \A j \in 1..(k - 1) : seq[j] # x
    ELSE None

\* ---------------------------------------------------- PriorityManager
get_priority_for_source(source) ==
    IF source \in DOMAIN PRIORITY_LEVELS THEN PRIORITY_LEVELS[source]
    ELSE UNKNOWN_SOURCE_LEVEL

\* validate_source that lets every source through
validate_source_any(source) == TRUE

validate_source(source) == source \in TOKEN_SOURCES

\* should_demote that also lets an equal priority through
should_demote_or_equal(existing_priority, new_priority) ==
    new_priority <= existing_priority

should_demote(existing_priority, new_priority) == new_priority < existing_priority

\* ------------------------------------------------------------ TimeSlot
NewTimeSlot(s, capacity) ==
    [doctor_id |-> "D1", start_time |-> SlotStart(s), max_capacity |-> capacity,
     allocated_count |-> 0, tokens |-> <<>>, waitlist |-> <<>>]

available_count(slot) == slot.max_capacity - slot.allocated_count

is_full(slot) == slot.allocated_count >= slot.max_capacity

\* add_token that appends the id and leaves the counter alone
add_token_uncounted(slot, token_id) ==
    IF slot.allocated_count < slot.max_capacity
    THEN [slot EXCEPT !.tokens = Append(@, token_id)]
    ELSE slot

add_token(slot, token_id) ==
    IF slot.allocated_count < slot.max_capacity
    THEN [slot EXCEPT !.tokens = Append(@, token_id), !.allocated_count = @ + 1]
    ELSE slot

\* remove_token that forgets the list: the counter drops, the id stays
remove_token_count_only(slot, token_id) ==
    IF Contains(slot.tokens, token_id)
    THEN [slot EXCEPT !.allocated_count = @ - 1]
    ELSE slot

\* remove_token that does nothing
remove_token_skipped(slot, token_id) == slot

remove_token(slot, token_id) ==
    IF Contains(slot.tokens, token_id)
    THEN [slot EXCEPT !.tokens = ListRemove(@, token_id), !.allocated_count = @ - 1]
    ELSE slot

TimeSlot_add_to_waitlist(slot, token_id) ==
    IF ~Contains(slot.waitlist, token_id)
    THEN [slot EXCEPT !.waitlist = Append(@, token_id)]
    ELSE slot

\* remove_from_waitlist that does nothing
TimeSlot_remove_from_waitlist_skipped(slot, token_id) == slot

TimeSlot_remove_from_waitlist(slot, token_id) ==
    IF Contains(slot.waitlist, token_id)
    THEN [slot EXCEPT !.waitlist = ListRemove(@, token_id)]
    ELSE slot

\* --------------------------------------------------------------- Token
calculate_estimated_time(slot_start_time, position_in_queue) ==
    (slot_start_time + (position_in_queue - 1) * AVERAGE_CONSULTATION_MINUTES)
        % MinutesPerDay

update_status(token, new_status) == [token EXCEPT !.status = new_status]

\* -------------------------------------------------------- QueueManager
EmptyWaitlists == [s \in Slots |-> <<>>]

\* sort key (priority, timestamp), compared as Python compares tuples
KeyLE(a, b) ==
    \/ a.priority < b.priority
    \/ a.priority = b.priority /\ a.timestamp <= b.timestamp

\* list.sort(key=...) is stable: an entry goes after the entries whose key
\* is not greater than its own
SortInsert(sorted, e) ==
    LET k == Cardinality({i \in 1..Len(sorted) : KeyLE(sorted[i], e)})
    IN SubSeq(sorted, 1, k) \o <<e>> \o SubSeq(sorted, k + 1, Len(sorted))

RECURSIVE SortedByKey(_)
SortedByKey(entries) ==
    IF entries = <<>> THEN <<>>
    ELSE SortInsert(SortedByKey(SubSeq(entries, 1, Len(entries) - 1)),
                    entries[Len(entries)])

\* _sort_waitlist that leaves the appended entry last
_sort_waitlist_skipped(waitlists, slot_id) == waitlists

_sort_waitlist(waitlists, slot_id) ==
    [waitlists EXCEPT ![slot_id] = SortedByKey(@)]

EntryIds(entries) == [i \in 1..Len(entries) |-> entries[i].token_id]

get_waitlist_position(waitlists, slot_id, token_id) ==
    IndexOf(EntryIds(waitlists[slot_id]), token_id)

\* the waitlists after add_to_waitlist; the position it returns is
\* get_waitlist_position of the result
QueueManager_add_to_waitlist(waitlists, slot_id, token_id, priority, timestamp) ==
    _sort_waitlist(
        [waitlists EXCEPT ![slot_id] =
            Append(@, [token_id |-> token_id, priority |-> priority,
                       timestamp |-> timestamp])],
        slot_id)

\* remove_from_waitlist that leaves the entry in the queue
QueueManager_remove_from_waitlist_skipped(waitlists, slot_id, token_id) == waitlists

QueueManager_remove_from_waitlist(waitlists, slot_id, token_id) ==
    [waitlists EXCEPT ![slot_id] = SelectSeq(@, LAMBDA item : item.token_id # token_id)]

\* get_next_from_waitlist that hands out the tail of the queue
get_next_from_waitlist_last(waitlists, slot_id) ==
    IF waitlists[slot_id] = <<>> THEN None
    ELSE waitlists[slot_id][Len(waitlists[slot_id])].token_id

get_next_from_waitlist(waitlists, slot_id) ==
    IF waitlists[slot_id] = <<>> THEN None
    ELSE waitlists[slot_id][1].token_id

\* ----------------------------------------------------------- DataStore
get_doctor(doctor_id) == doctor_id \in Doctors

get_token(T, token_id) == IF token_id \in 1..Len(T) THEN token_id ELSE None

\* find_slot_by_time that returns the doctor's first slot whatever the time
find_slot_by_time_any(S, doctor_id, start_time) ==
    LET match == {s \in DOMAIN S : S[s].doctor_id = doctor_id}
    IN IF match = {} THEN None
       ELSE CHOOSE s \in match : \A o \in match : s <= o

find_slot_by_time(S, doctor_id, start_time) ==
    LET match == {s \in DOMAIN S :
                    S[s].doctor_id = doctor_id /\ S[s].start_time = start_time}
    IN IF match = {} THEN None
       ELSE CHOOSE s \in match : \A o \in match : s <= o

find_patient_by_phone(P, phone) ==
    LET match == {p \in 1..Len(P) : P[p].phone = phone}
    IN IF match = {} THEN None
       ELSE CHOOSE p \in match : \A o \in match : p <= o

\* --------------------------------------------------------- call results
\* error kinds raised by the services (all are ValueError in the source)
NoResult ==
    [op |-> "none", error |-> "", token_id |-> None, status |-> "",
     position |-> None, promoted_token_id |-> None, demoted_token_id |-> None]

Raised(op, kind) == [NoResult EXCEPT !.op = op, !.error = kind]

\* ------------------------------------------------ ReallocationService
\* Each operation maps the stores it touches (T = db.tokens,
\* S = db.time_slots, Q = the service's queue_manager.waitlists) to their
\* values after the call.

_promote_from_waitlist(T, S, Q, slot_id) ==
    LET next_token_id == get_next_from_waitlist(Q, slot_id)
    IN IF next_token_id = None \/ get_token(T, next_token_id) = None
       THEN [tokens |-> T, slots |-> S, waitlists |-> Q, promoted |-> None]
       ELSE LET slot1 == add_token(
                    TimeSlot_remove_from_waitlist(S[slot_id], next_token_id),
                    next_token_id)
                token_number == slot1.allocated_count
            IN [tokens |-> [T EXCEPT ![next_token_id] =
                       update_status(
                           [@ EXCEPT !.token_number = token_number,
                                     !.estimated_time =
                                         calculate_estimated_time(slot1.start_time,
                                                                  token_number)],
                           "CONFIRMED")],
                slots |-> [S EXCEPT ![slot_id] = slot1],
                waitlists |-> QueueManager_remove_from_waitlist(Q, slot_id, next_token_id),
                promoted |-> next_token_id]

\* cancel_token without its check for finished tokens
cancel_token_unchecked(T, S, Q, token_id) ==
    IF get_token(T, token_id) = None
    THEN [tokens |-> T, slots |-> S, waitlists |-> Q,
          result |-> Raised("cancel", "TokenNotFound")]
    ELSE LET slot_id == T[token_id].slot_id
         IN IF T[token_id].status = "CONFIRMED"
            THEN LET S1 == [S EXCEPT ![slot_id] = remove_token(@, token_id)]
                     T1 == [T EXCEPT ![token_id] = update_status(@, "CANCELLED")]
                     p == _promote_from_waitlist(T1, S1, Q, slot_id)
                 IN [tokens |-> p.tokens, slots |-> p.slots, waitlists |-> p.waitlists,
                     result |-> [NoResult EXCEPT !.op = "cancel", !.token_id = token_id,
                                     !.status = "CANCELLED",
                                     !.promoted_token_id = p.promoted]]
            ELSE IF T[token_id].status = "WAITLISTED"
            THEN [tokens |-> [T EXCEPT ![token_id] = update_status(@, "CANCELLED")],
                  slots |-> [S EXCEPT ![slot_id] =
                                TimeSlot_remove_from_waitlist(@, token_id)],
                  waitlists |-> QueueManager_remove_from_waitlist(Q, slot_id, token_id),
                  result |-> [NoResult EXCEPT !.op = "cancel", !.token_id = token_id,
                                  !.status = "CANCELLED"]]
            ELSE [tokens |-> T, slots |-> S, waitlists |-> Q,
                  result |-> [NoResult EXCEPT !.op = "cancel", !.token_id = token_id]]

cancel_token(T, S, Q, token_id) ==
    IF get_token(T, token_id) = None
    THEN [tokens |-> T, slots |-> S, waitlists |-> Q,
          result |-> Raised("cancel", "TokenNotFound")]
    ELSE IF T[token_id].status \in {"CANCELLED", "COMPLETED", "NO_SHOW"}
    THEN [tokens |-> T, slots |-> S, waitlists |-> Q,
          result |-> Raised("cancel", "InvalidTransition")]
    ELSE LET slot_id == T[token_id].slot_id
         IN IF T[token_id].status = "CONFIRMED"
            THEN LET S1 == [S EXCEPT ![slot_id] = remove_token(@, token_id)]
                     T1 == [T EXCEPT ![token_id] = update_status(@, "CANCELLED")]
                     p == _promote_from_waitlist(T1, S1, Q, slot_id)
                 IN [tokens |-> p.tokens, slots |-> p.slots, waitlists |-> p.waitlists,
                     result |-> [NoResult EXCEPT !.op = "cancel", !.token_id = token_id,
                                     !.status = "CANCELLED",
                                     !.promoted_token_id = p.promoted]]
            ELSE IF T[token_id].status = "WAITLISTED"
            THEN [tokens |-> [T EXCEPT ![token_id] = update_status(@, "CANCELLED")],
                  slots |-> [S EXCEPT ![slot_id] =
                                TimeSlot_remove_from_waitlist(@, token_id)],
                  waitlists |-> QueueManager_remove_from_waitlist(Q, slot_id, token_id),
                  result |-> [NoResult EXCEPT !.op = "cancel", !.token_id = token_id,
                                  !.status = "CANCELLED"]]
            ELSE [tokens |-> T, slots |-> S, waitlists |-> Q,
                  result |-> [NoResult EXCEPT !.op = "cancel", !.token_id = token_id]]

\* mark_no_show without its status check
mark_no_show_unchecked(T, S, Q, token_id) ==
    IF get_token(T, token_id) = None
    THEN [tokens |-> T, slots |-> S, waitlists |-> Q,
          result |-> Raised("mark_no_show", "TokenNotFound")]
    ELSE LET slot_id == T[token_id].slot_id
             S1 == [S EXCEPT ![slot_id] = remove_token(@, token_id)]
             T1 == [T EXCEPT ![token_id] = update_status(@, "NO_SHOW")]
             p == _promote_from_waitlist(T1, S1, Q, slot_id)
         IN [tokens |-> p.tokens, slots |-> p.slots, waitlists |-> p.waitlists,
             result |-> [NoResult EXCEPT !.op = "mark_no_show", !.token_id = token_id,
                             !.status = "NO_SHOW",
                             !.promoted_token_id = p.promoted]]

mark_no_show(T, S, Q, token_id) ==
    IF get_token(T, token_id) = None
    THEN [tokens |-> T, slots |-> S, waitlists |-> Q,
          result |-> Raised("mark_no_show", "TokenNotFound")]
    ELSE IF T[token_id].status # "CONFIRMED"
    THEN [tokens |-> T, slots |-> S, waitlists |-> Q,
          result |-> Raised("mark_no_show", "InvalidTransition")]
    ELSE LET slot_id == T[token_id].slot_id
             S1 == [S EXCEPT ![slot_id] = remove_token(@, token_id)]
             T1 == [T EXCEPT ![token_id] = update_status(@, "NO_SHOW")]
             p == _promote_from_waitlist(T1, S1, Q, slot_id)
         IN [tokens |-> p.tokens, slots |-> p.slots, waitlists |-> p.waitlists,
             result |-> [NoResult EXCEPT !.op = "mark_no_show", !.token_id = token_id,
                             !.status = "NO_SHOW",
                             !.promoted_token_id = p.promoted]]

demote_token(T, S, Q, token_id, timestamp) ==
    IF get_token(T, token_id) = None
    THEN [tokens |-> T, slots |-> S, waitlists |-> Q,
          result |-> Raised("demote", "TokenNotFound")]
    ELSE IF T[token_id].status # "CONFIRMED"
    THEN [tokens |-> T, slots |-> S, waitlists |-> Q,
          result |-> Raised("demote", "InvalidTransition")]
    ELSE LET slot_id == T[token_id].slot_id
             Q1 == QueueManager_add_to_waitlist(Q, slot_id, token_id,
                                                T[token_id].priority, timestamp)
         IN [tokens |-> [T EXCEPT ![token_id] =
                    [update_status(@, "WAITLISTED") EXCEPT !.token_number = None,
                                                           !.estimated_time = None]],
             slots |-> [S EXCEPT ![slot_id] =
                           TimeSlot_add_to_waitlist(remove_token(@, token_id), token_id)],
             waitlists |-> Q1,
             result |-> [NoResult EXCEPT !.op = "demote", !.token_id = token_id,
                             !.status = "WAITLISTED",
                             !.position = get_waitlist_position(Q1, slot_id, token_id)]]

\* complete_token that gives the seat back
complete_token_frees_seat(T, S, Q, token_id) ==
    IF get_token(T, token_id) = None
    THEN [tokens |-> T, slots |-> S, waitlists |-> Q,
          result |-> Raised("complete", "TokenNotFound")]
    ELSE IF T[token_id].status # "CONFIRMED"
    THEN [tokens |-> T, slots |-> S, waitlists |-> Q,
          result |-> Raised("complete", "InvalidTransition")]
    ELSE [tokens |-> [T EXCEPT ![token_id] = update_status(@, "COMPLETED")],
          slots |-> [S EXCEPT ![T[token_id].slot_id] = remove_token(@, token_id)],
          waitlists |-> Q,
          result |-> [NoResult EXCEPT !.op = "complete", !.token_id = token_id,
                          !.status = "COMPLETED"]]

\* complete_token that sets the status before it checks the old one
complete_token_marks_first(T, S, Q, token_id) ==
    IF get_token(T, token_id) = None
    THEN [tokens |-> T, slots |-> S, waitlists |-> Q,
          result |-> Raised("complete", "TokenNotFound")]
    ELSE IF T[token_id].status # "CONFIRMED"
    THEN [tokens |-> [T EXCEPT ![token_id] = update_status(@, "COMPLETED")],
          slots |-> S, waitlists |-> Q,
          result |-> Raised("complete", "InvalidTransition")]
    ELSE [tokens |-> [T EXCEPT ![token_id] = update_status(@, "COMPLETED")],
          slots |-> S, waitlists |-> Q,
          result |-> [NoResult EXCEPT !.op = "complete", !.token_id = token_id,
                          !.status = "COMPLETED"]]

\* complete_token without its status check
complete_token_unchecked(T, S, Q, token_id) ==
    IF get_token(T, token_id) = None
    THEN [tokens |-> T, slots |-> S, waitlists |-> Q,
          result |-> Raised("complete", "TokenNotFound")]
    ELSE [tokens |-> [T EXCEPT ![token_id] = update_status(@, "COMPLETED")],
          slots |-> S, waitlists |-> Q,
          result |-> [NoResult EXCEPT !.op = "complete", !.token_id = token_id,
                          !.status = "COMPLETED"]]

complete_token(T, S, Q, token_id) ==
    IF get_token(T, token_id) = None
    THEN [tokens |-> T, slots |-> S, waitlists |-> Q,
          result |-> Raised("complete", "TokenNotFound")]
    ELSE IF T[token_id].status # "CONFIRMED"
    THEN [tokens |-> T, slots |-> S, waitlists |-> Q,
          result |-> Raised("complete", "InvalidTransition")]
    ELSE [tokens |-> [T EXCEPT ![token_id] = update_status(@, "COMPLETED")],
          slots |-> S, waitlists |-> Q,
          result |-> [NoResult EXCEPT !.op = "complete", !.token_id = token_id,
                          !.status = "COMPLETED"]]

\* --------------------------------------------------- AllocationService
NewToken(patient_id, doctor_id, slot_id, source, priority, status, token_number) ==
    [patient_id |-> patient_id, doctor_id |-> doctor_id, slot_id |-> slot_id,
     source |-> source, priority |-> priority, status |-> status,
     token_number |-> token_number, estimated_time |-> None]

\* _create_confirmed_token that numbers from the count before the append
_create_confirmed_token_from_count(patient_id, doctor_id, slot_id, slot, source, priority) ==
    LET token_number == slot.allocated_count
    IN [NewToken(patient_id, doctor_id, slot_id, source, priority, "CONFIRMED",
                 token_number)
          EXCEPT !.estimated_time =
                     calculate_estimated_time(slot.start_time, token_number)]

_create_confirmed_token(patient_id, doctor_id, slot_id, slot, source, priority) ==
    LET token_number == slot.allocated_count + 1
    IN [NewToken(patient_id, doctor_id, slot_id, source, priority, "CONFIRMED",
                 token_number)
          EXCEPT !.estimated_time =
                     calculate_estimated_time(slot.start_time, token_number)]

_create_waitlisted_token(patient_id, doctor_id, slot_id, slot, source, priority) ==
    NewToken(patient_id, doctor_id, slot_id, source, priority, "WAITLISTED", None)

\* "get or create patient" that never looks the phone number up
GetOrCreatePatient_always(P, phone) == Append(P, [phone |-> phone])

\* "get or create patient": the patients after the lookup
GetOrCreatePatient(P, phone) ==
    IF find_patient_by_phone(P, phone) = None THEN Append(P, [phone |-> phone]) ELSE P

\* the branch "slot has capacity - allocate directly", shared by both allocations
ConfirmDirectly(op, T, S, P, Q, patient_id, doctor_id, slot_id, source, priority) ==
    LET token == _create_confirmed_token(patient_id, doctor_id, slot_id, S[slot_id],
                                         source, priority)
        token_id == Len(T) + 1
    IN [tokens |-> Append(T, token),
        slots |-> [S EXCEPT ![slot_id] = add_token(@, token_id)],
        patients |-> P, waitlists |-> Q,
        result |-> [NoResult EXCEPT !.op = op, !.token_id = token_id,
                        !.status = "CONFIRMED"]]

\* the branch "slot is full - add to waitlist", shared by both allocations
WaitlistNew(op, T, S, P, Q, patient_id, doctor_id, slot_id, source, priority, timestamp) ==
    LET token == _create_waitlisted_token(patient_id, doctor_id, slot_id, S[slot_id],
                                          source, priority)
        token_id == Len(T) + 1
        Q1 == QueueManager_add_to_waitlist(Q, slot_id, token_id, priority, timestamp)
    IN [tokens |-> Append(T, token),
        slots |-> [S EXCEPT ![slot_id] = TimeSlot_add_to_waitlist(@, token_id)],
        patients |-> P, waitlists |-> Q1,
        result |-> [NoResult EXCEPT !.op = op, !.token_id = token_id,
                        !.status = "WAITLISTED",
                        !.position = get_waitlist_position(Q1, slot_id, token_id)]]

allocate_token(T, S, P, Q, phone, doctor_id, preferred_slot_time, source, timestamp) ==
    IF ~validate_source(source)
    THEN [tokens |-> T, slots |-> S, patients |-> P, waitlists |-> Q,
          result |-> Raised("allocate", "InvalidSource")]
    ELSE IF ~get_doctor(doctor_id)
    THEN [tokens |-> T, slots |-> S, patients |-> P, waitlists |-> Q,
          result |-> Raised("allocate", "DoctorNotFound")]
    ELSE LET P1 == GetOrCreatePatient(P, phone)
             patient_id == find_patient_by_phone(P1, phone)
             slot_id == find_slot_by_time(S, doctor_id, preferred_slot_time)
             priority == get_priority_for_source(source)
         IN IF slot_id = None
            THEN [tokens |-> T, slots |-> S, patients |-> P1, waitlists |-> Q,
                  result |-> Raised("allocate", "SlotNotFound")]
            ELSE IF ~is_full(S[slot_id])
            THEN ConfirmDirectly("allocate", T, S, P1, Q, patient_id, doctor_id,
                                 slot_id, source, priority)
            ELSE WaitlistNew("allocate", T, S, P1, Q, patient_id, doctor_id,
                             slot_id, source, priority, timestamp)

\* max(confirmed_tokens, key=lambda t: t.priority): the first token of the
\* list whose priority no other exceeds
LowestPriorityToken(T, ids) ==
    ids[CHOOSE i \in 1..Len(ids) :
            /\ \A j \in 1..Len(ids) : T[ids[j]].priority <= T[ids[i]].priority
            /\ \A j \in 1..(i - 1) : T[ids[j]].priority < T[ids[i]].priority]

allocate_emergency_token(T, S, P, Q, phone, doctor_id, preferred_slot_time, timestamp) ==
    LET P1 == GetOrCreatePatient(P, phone)
        patient_id == find_patient_by_phone(P1, phone)
        slot_id == find_slot_by_time(S, doctor_id, preferred_slot_time)
        emergency_priority == get_priority_for_source("EMERGENCY")
    IN IF slot_id = None
       THEN [tokens |-> T, slots |-> S, patients |-> P1, waitlists |-> Q,
             result |-> Raised("allocate_emergency", "SlotNotFound")]
       ELSE IF ~is_full(S[slot_id])
       THEN ConfirmDirectly("allocate_emergency", T, S, P1, Q, patient_id, doctor_id,
                            slot_id, "EMERGENCY", emergency_priority)
       ELSE IF S[slot_id].tokens = <<>>
       THEN \* max() of an empty list raises ValueError
            [tokens |-> T, slots |-> S, patients |-> P1, waitlists |-> Q,
             result |-> Raised("allocate_emergency", "EmptySequence")]
       ELSE LET lowest_priority_token == LowestPriorityToken(T, S[slot_id].tokens)
            IN IF should_demote(T[lowest_priority_token].priority, emergency_priority)
               THEN \* a new ReallocationService, with a queue manager of its own
                    \* that is dropped when the call returns
                    LET d == demote_token(T, S, EmptyWaitlists, lowest_priority_token,
                                          timestamp)
                    IN IF d.result.error # ""
                       THEN [tokens |-> T, slots |-> S, patients |-> P1,
                             waitlists |-> Q,
                             result |-> Raised("allocate_emergency", d.result.error)]
                       ELSE LET c == ConfirmDirectly("allocate_emergency", d.tokens,
                                         d.slots, P1, Q, patient_id, doctor_id,
                                         slot_id, "EMERGENCY", emergency_priority)
                            IN [c EXCEPT !.result.demoted_token_id =
                                             lowest_priority_token]
               ELSE WaitlistNew("allocate_emergency", T, S, P1, Q, patient_id,
                                doctor_id, slot_id, "EMERGENCY", emergency_priority,
                                timestamp)

\* ------------------------------------------------------------- the engine
\* datetime.now() never runs backwards. With ties, two readings may be
\* equal; without, every entry that is queued gets a later reading than the
\* last one stored.
ClockReadings(ties) == IF ties THEN {now, now + 1} ELSE {now + 1}

\* the request threads of the server (app.run serves each request on a
\* thread of its own); a thread that serves no request is idle
Threads == {1, 2}

IdleThread ==
    [pc |-> "idle", op |-> "", patient_id |-> None, slot_id |-> None, source |-> "",
     priority |-> None, token_id |-> None, token |-> <<>>, count |-> None,
     next_token_id |-> None, returned |-> ""]

Init ==
    /\ tokens = <<>>
    /\ \E capacity \in 0..MaxCapacity :
           slots = [s \in Slots |-> NewTimeSlot(s, IF s = 1 THEN capacity ELSE 1)]
    /\ patients = <<>>
    /\ alloc_waitlists = EmptyWaitlists
    /\ realloc_waitlists = EmptyWaitlists
    /\ now = 0
    /\ result = NoResult
    /\ threads = [th \in Threads |-> IdleThread]

\* POST /tokens/allocate
Allocate(phone, doctor_id, preferred_slot_time, source, timestamp) ==
    /\ Len(tokens) < MaxTokens
    /\ LET r == allocate_token(tokens, slots, patients, alloc_waitlists, phone,
                               doctor_id, preferred_slot_time, source, timestamp)
       IN /\ tokens' = r.tokens
          /\ slots' = r.slots
          /\ patients' = r.patients
          /\ alloc_waitlists' = r.waitlists
          /\ result' = r.result
          /\ now' = IF r.waitlists # alloc_waitlists THEN timestamp ELSE now
    /\ UNCHANGED <<realloc_waitlists, threads>>

\* POST /tokens/emergency
AllocateEmergency(phone, doctor_id, preferred_slot_time, timestamp) ==
    /\ Len(tokens) < MaxTokens
    /\ LET r == allocate_emergency_token(tokens, slots, patients, alloc_waitlists,
                                         phone, doctor_id, preferred_slot_time,
                                         timestamp)
       IN /\ tokens' = r.tokens
          /\ slots' = r.slots
          /\ patients' = r.patients
          /\ alloc_waitlists' = r.waitlists
          /\ result' = r.result
          /\ now' = IF r.waitlists # alloc_waitlists THEN timestamp ELSE now
    /\ UNCHANGED <<realloc_waitlists, threads>>

\* POST /tokens/<token_id>/cancel
Cancel(token_id) ==
    LET r == cancel_token(tokens, slots, realloc_waitlists, token_id)
    IN /\ tokens' = r.tokens
       /\ slots' = r.slots
       /\ realloc_waitlists' = r.waitlists
       /\ result' = r.result
       /\ UNCHANGED <<patients, alloc_waitlists, now, threads>>

\* POST /tokens/<token_id>/no-show
MarkNoShow(token_id) ==
    LET r == mark_no_show(tokens, slots, realloc_waitlists, token_id)
    IN /\ tokens' = r.tokens
       /\ slots' = r.slots
       /\ realloc_waitlists' = r.waitlists
       /\ result' = r.result
       /\ UNCHANGED <<patients, alloc_waitlists, now, threads>>

\* reallocation_service.demote_token, called on the shared service
Demote(token_id, timestamp) ==
    LET r == demote_token(tokens, slots, realloc_waitlists, token_id, timestamp)
    IN /\ tokens' = r.tokens
       /\ slots' = r.slots
       /\ realloc_waitlists' = r.waitlists
       /\ result' = r.result
       /\ now' = IF r.waitlists # realloc_waitlists THEN timestamp ELSE now
       /\ UNCHANGED <<patients, alloc_waitlists, threads>>

\* POST /tokens/<token_id>/complete
Complete(token_id) ==
    LET r == complete_token(tokens, slots, realloc_waitlists, token_id)
    IN /\ tokens' = r.tokens
       /\ slots' = r.slots
       /\ realloc_waitlists' = r.waitlists
       /\ result' = r.result
       /\ UNCHANGED <<patients, alloc_waitlists, now, threads>>

\* the engine driven by requests drawn from the given inputs
Engine(phones, times, sources, ties) ==
    \/ \E phone \in phones, doctor_id \in RequestDoctors,
          preferred_slot_time \in times, source \in sources,
          timestamp \in ClockReadings(ties) :
            Allocate(phone, doctor_id, preferred_slot_time, source, timestamp)
    \/ \E phone \in phones, doctor_id \in RequestDoctors,
          preferred_slot_time \in times, timestamp \in ClockReadings(ties) :
            AllocateEmergency(phone, doctor_id, preferred_slot_time, timestamp)
    \/ \E token_id \in TokenIds : Cancel(token_id)
    \/ \E token_id \in TokenIds : MarkNoShow(token_id)
    \/ \E token_id \in TokenIds, timestamp \in ClockReadings(ties) :
            Demote(token_id, timestamp)
    \/ \E token_id \in TokenIds : Complete(token_id)

\* one patient booking into the first slot
Next == Engine({1}, {SlotStart(1), MissingTime}, RequestSources, FALSE)

Spec == Init /\ [][Next]_vars

\* one patient booking into either of two slots of one seat each
InitTwoSlots ==
    /\ tokens = <<>>
    /\ slots = [s \in Slots |-> NewTimeSlot(s, 1)]
    /\ patients = <<>>
    /\ alloc_waitlists = EmptyWaitlists
    /\ realloc_waitlists = EmptyWaitlists
    /\ now = 0
    /\ result = NoResult
    /\ threads = [th \in Threads |-> IdleThread]

NextTwoSlots == Engine({1}, {SlotStart(s) : s \in Slots}, {"WALK_IN"}, FALSE)

SpecTwoSlots == InitTwoSlots /\ [][NextTwoSlots]_vars

\* two patients booking into the first slot, of one seat
NextTwoPhones ==
    \/ \E phone \in Phones, preferred_slot_time \in {SlotStart(1), MissingTime},
          timestamp \in ClockReadings(FALSE) :
            Allocate(phone, "D1", preferred_slot_time, "WALK_IN", timestamp)
    \/ \E phone \in Phones, preferred_slot_time \in {SlotStart(1), MissingTime},
          timestamp \in ClockReadings(FALSE) :
            AllocateEmergency(phone, "D1", preferred_slot_time, timestamp)
    \/ \E token_id \in TokenIds : Cancel(token_id)

SpecTwoPhones == InitTwoSlots /\ [][NextTwoPhones]_vars

\* one patient booking into a slot of two seats that starts two minutes
\* before midnight
LateStart == MinutesPerDay - 2

InitLateSlot ==
    /\ tokens = <<>>
    /\ slots = [s \in Slots |->
                  IF s = 1 THEN [NewTimeSlot(s, MaxCapacity) EXCEPT !.start_time = LateStart]
                  ELSE NewTimeSlot(s, 1)]
    /\ patients = <<>>
    /\ alloc_waitlists = EmptyWaitlists
    /\ realloc_waitlists = EmptyWaitlists
    /\ now = 0
    /\ result = NoResult
    /\ threads = [th \in Threads |-> IdleThread]

NextLateSlot == Engine({1}, {LateStart}, {"WALK_IN"}, FALSE)

SpecLateSlot == InitLateSlot /\ [][NextLateSlot]_vars

\* ------------------------------------------------- the queue manager alone
\* Calls on one QueueManager (the allocation service's), in any order, with
\* any configured priority and with clock readings that may tie.
Enqueue(slot_id, token_id, priority, timestamp) ==
    /\ Len(alloc_waitlists[slot_id]) < MaxQueue
    /\ timestamp <= MaxClock
    /\ alloc_waitlists' = QueueManager_add_to_waitlist(alloc_waitlists, slot_id,
                                                       token_id, priority, timestamp)
    /\ now' = timestamp
    /\ UNCHANGED <<tokens, slots, patients, realloc_waitlists, result, threads>>

Remove(slot_id, token_id) ==
    /\ alloc_waitlists' = QueueManager_remove_from_waitlist(alloc_waitlists, slot_id,
                                                            token_id)
    /\ UNCHANGED <<tokens, slots, patients, realloc_waitlists, now, result, threads>>

QueuePriorities == {PRIORITY_LEVELS[s] : s \in TOKEN_SOURCES}

NextQueue ==
    \/ \E slot_id \in {1}, token_id \in TokenIds, priority \in QueuePriorities,
          timestamp \in ClockReadings(TRUE) :
            Enqueue(slot_id, token_id, priority, timestamp)
    \/ \E slot_id \in {1}, token_id \in TokenIds : Remove(slot_id, token_id)

SpecQueue == Init /\ [][NextQueue]_vars

\* ---------------------------------------------- the priority manager alone
\* Calls on the static methods of PriorityManager. Thread 1 holds the
\* priority of the existing token and thread 2 that of the new one, as
\* allocate_emergency_token passes them to should_demote.
SourceInputs == TOKEN_SOURCES \cup {"BOGUS"}

\* get_priority_for_source(source): a dictionary lookup with a default, which
\* returns and never raises
GetPriorityForSource(th, source) ==
    /\ threads' = [threads EXCEPT ![th] =
                      [IdleThread EXCEPT !.op = "get_priority_for_source",
                                         !.source = source,
                                         !.priority = get_priority_for_source(source),
                                         !.returned = "int"]]
    /\ result' = NoResult
    /\ UNCHANGED <<tokens, slots, patients, alloc_waitlists, realloc_waitlists, now>>

ValidateSource(th, source) ==
    /\ threads' = [threads EXCEPT ![th] =
                      [IdleThread EXCEPT !.op = "validate_source",
                                         !.source = source,
                                         !.returned = IF validate_source(source)
                                                      THEN "True" ELSE "False"]]
    /\ result' = NoResult
    /\ UNCHANGED <<tokens, slots, patients, alloc_waitlists, realloc_waitlists, now>>

ShouldDemote ==
    /\ \A th \in Threads : threads[th].op = "get_priority_for_source"
    /\ result' = [NoResult EXCEPT
                     !.op = "should_demote",
                     !.status = IF should_demote(threads[1].priority,
                                                 threads[2].priority)
                                THEN "True" ELSE "False"]
    /\ UNCHANGED <<tokens, slots, patients, alloc_waitlists, realloc_waitlists, now,
                   threads>>

NextPriority ==
    \/ \E th \in Threads, source \in SourceInputs : GetPriorityForSource(th, source)
    \/ \E th \in Threads, source \in SourceInputs : ValidateSource(th, source)
    \/ ShouldDemote

SpecPriority == InitTwoSlots /\ [][NextPriority]_vars

\* ------------------------------------------- two allocations at once
\* allocate_token run by two threads on one slot, statement by statement.
\* No lock is taken anywhere in the services, so a thread may be preempted
\* between any two statements.
ConcurrentSources == {"WALK_IN", "ONLINE_BOOKING"}

\* the stores after n allocations made one after the other on the first slot
RECURSIVE AfterAllocations(_, _)
AfterAllocations(n, capacity) ==
    IF n = 0
    THEN [tokens |-> <<>>,
          slots |-> [s \in Slots |-> NewTimeSlot(s, IF s = 1 THEN capacity ELSE 1)],
          patients |-> <<>>, waitlists |-> EmptyWaitlists]
    ELSE LET b == AfterAllocations(n - 1, capacity)
         IN allocate_token(b.tokens, b.slots, b.patients, b.waitlists, 1, "D1",
                           SlotStart(1), "WALK_IN", 0)

\* the first slot has exactly one vacancy left and both threads are about to
\* call allocate_token
InitConcurrentAllocate ==
    /\ \E capacity \in 1..MaxCapacity :
          LET b == AfterAllocations(capacity - 1, capacity)
          IN /\ tokens = b.tokens
             /\ slots = b.slots
             /\ patients = b.patients
             /\ alloc_waitlists = b.waitlists
    /\ realloc_waitlists = EmptyWaitlists
    /\ now = 0
    /\ result = NoResult
    /\ threads = [th \in Threads |-> [IdleThread EXCEPT !.pc = "start"]]

\* the next id a Token() constructor hands out
NextTokenId ==
    1 + Cardinality(DOMAIN tokens
                    \cup ({threads[th].token_id : th \in Threads} \ {None}))

\* validation, get-or-create patient, slot lookup, priority
BeginAllocate(th, phone, source) ==
    /\ threads[th].pc = "start"
    /\ validate_source(source)
    /\ get_doctor("D1")
    /\ patients' = GetOrCreatePatient(patients, phone)
    /\ threads' = [threads EXCEPT ![th] =
           [@ EXCEPT !.pc = "check_full",
                     !.patient_id = find_patient_by_phone(patients', phone),
                     !.slot_id = find_slot_by_time(slots, "D1", SlotStart(1)),
                     !.source = source,
                     !.priority = get_priority_for_source(source)]]
    /\ UNCHANGED <<tokens, slots, alloc_waitlists, realloc_waitlists, now, result>>

\* if not slot.is_full
CheckFull(th) ==
    /\ threads[th].pc = "check_full"
    /\ threads' = [threads EXCEPT ![th].pc =
           IF is_full(slots[threads[th].slot_id]) THEN "create_waitlisted"
           ELSE "create_confirmed"]
    /\ UNCHANGED <<tokens, slots, patients, alloc_waitlists, realloc_waitlists, now,
                   result>>

\* token = self._create_confirmed_token(...)
CreateConfirmed(th) ==
    /\ threads[th].pc = "create_confirmed"
    /\ threads' = [threads EXCEPT ![th] =
           [@ EXCEPT !.pc = "add_token",
                     !.token_id = NextTokenId,
                     !.token = <<_create_confirmed_token(
                                     threads[th].patient_id, "D1",
                                     threads[th].slot_id,
                                     slots[threads[th].slot_id],
                                     threads[th].source, threads[th].priority)>>]]
    /\ UNCHANGED <<tokens, slots, patients, alloc_waitlists, realloc_waitlists, now,
                   result>>

\* slot.add_token: if self.allocated_count < self.max_capacity
AddTokenCheck(th) ==
    /\ threads[th].pc = "add_token"
    /\ threads' = [threads EXCEPT ![th].pc =
           IF slots[threads[th].slot_id].allocated_count
                  < slots[threads[th].slot_id].max_capacity
           THEN "append" ELSE "db_add"]
    /\ UNCHANGED <<tokens, slots, patients, alloc_waitlists, realloc_waitlists, now,
                   result>>

\* self.tokens.append(token_id)
AppendToken(th) ==
    /\ threads[th].pc = "append"
    /\ slots' = [slots EXCEPT ![threads[th].slot_id].tokens =
                     Append(@, threads[th].token_id)]
    /\ threads' = [threads EXCEPT ![th].pc = "count_read"]
    /\ UNCHANGED <<tokens, patients, alloc_waitlists, realloc_waitlists, now, result>>

\* self.allocated_count += 1: the read
CountRead(th) ==
    /\ threads[th].pc = "count_read"
    /\ threads' = [threads EXCEPT ![th] =
           [@ EXCEPT !.pc = "count_write",
                     !.count = slots[threads[th].slot_id].allocated_count]]
    /\ UNCHANGED <<tokens, slots, patients, alloc_waitlists, realloc_waitlists, now,
                   result>>

\* self.allocated_count += 1: the write
CountWrite(th) ==
    /\ threads[th].pc = "count_write"
    /\ slots' = [slots EXCEPT ![threads[th].slot_id].allocated_count =
                     threads[th].count + 1]
    /\ threads' = [threads EXCEPT ![th].pc = "db_add"]
    /\ UNCHANGED <<tokens, patients, alloc_waitlists, realloc_waitlists, now, result>>

\* token = self._create_waitlisted_token(...)
CreateWaitlisted(th) ==
    /\ threads[th].pc = "create_waitlisted"
    /\ threads' = [threads EXCEPT ![th] =
           [@ EXCEPT !.pc = "slot_waitlist",
                     !.token_id = NextTokenId,
                     !.token = <<_create_waitlisted_token(
                                     threads[th].patient_id, "D1",
                                     threads[th].slot_id,
                                     slots[threads[th].slot_id],
                                     threads[th].source, threads[th].priority)>>]]
    /\ UNCHANGED <<tokens, slots, patients, alloc_waitlists, realloc_waitlists, now,
                   result>>

\* slot.add_to_waitlist(token.id)
SlotWaitlist(th) ==
    /\ threads[th].pc = "slot_waitlist"
    /\ slots' = [slots EXCEPT ![threads[th].slot_id] =
                     TimeSlot_add_to_waitlist(@, threads[th].token_id)]
    /\ threads' = [threads EXCEPT ![th].pc = "db_add"]
    /\ UNCHANGED <<tokens, patients, alloc_waitlists, realloc_waitlists, now, result>>

\* db.add_token(token); the confirmed branch returns after it
DbAddToken(th) ==
    /\ threads[th].pc = "db_add"
    /\ tokens' = (threads[th].token_id :> threads[th].token[1]) @@ tokens
    /\ threads' = [threads EXCEPT ![th] =
           IF @.token[1].status = "CONFIRMED"
           THEN [@ EXCEPT !.pc = "done", !.returned = "CONFIRMED"]
           ELSE [@ EXCEPT !.pc = "queue_add"]]
    /\ UNCHANGED <<slots, patients, alloc_waitlists, realloc_waitlists, now, result>>

\* position = self.queue_manager.add_to_waitlist(...); return
QueueAdd(th, timestamp) ==
    /\ threads[th].pc = "queue_add"
    /\ alloc_waitlists' = QueueManager_add_to_waitlist(
                              alloc_waitlists, threads[th].slot_id,
                              threads[th].token_id, threads[th].priority, timestamp)
    /\ now' = timestamp
    /\ threads' = [threads EXCEPT ![th] =
           [@ EXCEPT !.pc = "done", !.returned = "WAITLISTED"]]
    /\ UNCHANGED <<tokens, slots, patients, realloc_waitlists, result>>

NextConcurrentAllocate ==
    \/ \E th \in Threads, phone \in Phones, source \in ConcurrentSources :
            BeginAllocate(th, phone, source)
    \/ \E th \in Threads : CheckFull(th)
    \/ \E th \in Threads : CreateConfirmed(th)
    \/ \E th \in Threads : AddTokenCheck(th)
    \/ \E th \in Threads : AppendToken(th)
    \/ \E th \in Threads : CountRead(th)
    \/ \E th \in Threads : CountWrite(th)
    \/ \E th \in Threads : CreateWaitlisted(th)
    \/ \E th \in Threads : SlotWaitlist(th)
    \/ \E th \in Threads : DbAddToken(th)
    \/ \E th \in Threads, timestamp \in ClockReadings(TRUE) : QueueAdd(th, timestamp)

SpecConcurrentAllocate == InitConcurrentAllocate /\ [][NextConcurrentAllocate]_vars

\* ------------------------------------- a cancel and a no-show at once
\* cancel_token and mark_no_show run by two threads on two Confirmed tokens
\* of one slot, statement by statement, each followed by its
\* _promote_from_waitlist.

\* the stores after `waiting` tokens were confirmed and demoted and two more
\* tokens were confirmed, one call after the other, on the first slot
ReallocBase(capacity, waiting) ==
    LET w == AfterAllocations(waiting, capacity)
        d == IF waiting = 1
             THEN demote_token(w.tokens, w.slots, EmptyWaitlists, 1, 1)
             ELSE [tokens |-> w.tokens, slots |-> w.slots, waitlists |-> EmptyWaitlists]
        a == allocate_token(d.tokens, d.slots, w.patients, w.waitlists, 1, "D1",
                            SlotStart(1), "WALK_IN", 1)
        b == allocate_token(a.tokens, a.slots, a.patients, a.waitlists, 1, "D1",
                            SlotStart(1), "WALK_IN", 1)
    IN [tokens |-> b.tokens, slots |-> b.slots, patients |-> b.patients,
        alloc_waitlists |-> b.waitlists, realloc_waitlists |-> d.waitlists,
        now |-> waiting]

\* thread 1 is about to cancel one Confirmed token of the slot and thread 2
\* to mark another one no-show
InitConcurrentRealloc ==
    /\ \E capacity \in 2..MaxCapacity, waiting \in {0, 1} :
          LET b == ReallocBase(capacity, waiting)
          IN /\ tokens = b.tokens
             /\ slots = b.slots
             /\ patients = b.patients
             /\ alloc_waitlists = b.alloc_waitlists
             /\ realloc_waitlists = b.realloc_waitlists
             /\ now = b.now
    /\ result = NoResult
    /\ \E a, b \in 1..Len(tokens) :
          /\ a # b
          /\ tokens[a].status = "CONFIRMED" /\ tokens[b].status = "CONFIRMED"
          /\ threads = [th \in Threads |->
                 [IdleThread EXCEPT !.pc = "realloc_start",
                                    !.op = IF th = 1 THEN "cancel" ELSE "mark_no_show",
                                    !.token_id = IF th = 1 THEN a ELSE b]]

\* what a thread's step leaves alone besides tokens, slots and the
\* reallocation service's queue
ReallocFrame == <<patients, alloc_waitlists, now, result>>

\* get_token, the status check, get_time_slot
BeginRealloc(th) ==
    /\ threads[th].pc = "realloc_start"
    /\ get_token(tokens, threads[th].token_id) # None
    /\ tokens[threads[th].token_id].status = "CONFIRMED"
    /\ threads' = [threads EXCEPT ![th] =
           [@ EXCEPT !.pc = "remove_token",
                     !.slot_id = tokens[threads[th].token_id].slot_id]]
    /\ UNCHANGED <<tokens, slots, realloc_waitlists, ReallocFrame>>

\* slot.remove_token: if token_id in self.tokens
RemoveTokenCheck(th) ==
    /\ threads[th].pc = "remove_token"
    /\ threads' = [threads EXCEPT ![th].pc =
           IF Contains(slots[threads[th].slot_id].tokens, threads[th].token_id)
           THEN "remove" ELSE "set_status"]
    /\ UNCHANGED <<tokens, slots, realloc_waitlists, ReallocFrame>>

\* self.tokens.remove(token_id)
RemoveFromList(th) ==
    /\ threads[th].pc = "remove"
    /\ slots' = [slots EXCEPT ![threads[th].slot_id].tokens =
                     ListRemove(@, threads[th].token_id)]
    /\ threads' = [threads EXCEPT ![th].pc = "release_read"]
    /\ UNCHANGED <<tokens, realloc_waitlists, ReallocFrame>>

\* self.allocated_count -= 1: the read
ReleaseRead(th) ==
    /\ threads[th].pc = "release_read"
    /\ threads' = [threads EXCEPT ![th] =
           [@ EXCEPT !.pc = "release_write",
                     !.count = slots[threads[th].slot_id].allocated_count]]
    /\ UNCHANGED <<tokens, slots, realloc_waitlists, ReallocFrame>>

\* self.allocated_count -= 1: the write
ReleaseWrite(th) ==
    /\ threads[th].pc = "release_write"
    /\ slots' = [slots EXCEPT ![threads[th].slot_id].allocated_count =
                     threads[th].count - 1]
    /\ threads' = [threads EXCEPT ![th].pc = "set_status"]
    /\ UNCHANGED <<tokens, realloc_waitlists, ReallocFrame>>

\* token.update_status('CANCELLED' / 'NO_SHOW')
SetLeftStatus(th) ==
    /\ threads[th].pc = "set_status"
    /\ tokens' = [tokens EXCEPT ![threads[th].token_id] =
                      update_status(@, IF threads[th].op = "cancel" THEN "CANCELLED"
                                       ELSE "NO_SHOW")]
    /\ threads' = [threads EXCEPT ![th].pc = "get_next"]
    /\ UNCHANGED <<slots, realloc_waitlists, ReallocFrame>>

\* next_token_id = self.queue_manager.get_next_from_waitlist(slot_id), and
\* the lookups that follow it
GetNext(th) ==
    /\ threads[th].pc = "get_next"
    /\ LET next_token_id == get_next_from_waitlist(realloc_waitlists,
                                                   threads[th].slot_id)
       IN threads' = [threads EXCEPT ![th] =
              IF next_token_id = None \/ get_token(tokens, next_token_id) = None
              THEN [@ EXCEPT !.pc = "done", !.returned = "NOT_PROMOTED"]
              ELSE [@ EXCEPT !.pc = "leave_waitlist",
                             !.next_token_id = next_token_id]]
    /\ UNCHANGED <<tokens, slots, realloc_waitlists, ReallocFrame>>

\* slot.remove_from_waitlist(token.id)
LeaveSlotWaitlist(th) ==
    /\ threads[th].pc = "leave_waitlist"
    /\ slots' = [slots EXCEPT ![threads[th].slot_id] =
                     TimeSlot_remove_from_waitlist(@, threads[th].next_token_id)]
    /\ threads' = [threads EXCEPT ![th].pc = "leave_queue"]
    /\ UNCHANGED <<tokens, realloc_waitlists, ReallocFrame>>

\* self.queue_manager.remove_from_waitlist(slot_id, token.id)
LeaveQueue(th) ==
    /\ threads[th].pc = "leave_queue"
    /\ realloc_waitlists' = QueueManager_remove_from_waitlist(
                                realloc_waitlists, threads[th].slot_id,
                                threads[th].next_token_id)
    /\ threads' = [threads EXCEPT ![th].pc = "seat"]
    /\ UNCHANGED <<tokens, slots, ReallocFrame>>

\* slot.add_token(token.id): if self.allocated_count < self.max_capacity
SeatCheck(th) ==
    /\ threads[th].pc = "seat"
    /\ threads' = [threads EXCEPT ![th].pc =
           IF slots[threads[th].slot_id].allocated_count
                  < slots[threads[th].slot_id].max_capacity
           THEN "seat_append" ELSE "number"]
    /\ UNCHANGED <<tokens, slots, realloc_waitlists, ReallocFrame>>

\* self.tokens.append(token_id)
SeatAppend(th) ==
    /\ threads[th].pc = "seat_append"
    /\ slots' = [slots EXCEPT ![threads[th].slot_id].tokens =
                     Append(@, threads[th].next_token_id)]
    /\ threads' = [threads EXCEPT ![th].pc = "seat_read"]
    /\ UNCHANGED <<tokens, realloc_waitlists, ReallocFrame>>

\* self.allocated_count += 1: the read
SeatRead(th) ==
    /\ threads[th].pc = "seat_read"
    /\ threads' = [threads EXCEPT ![th] =
           [@ EXCEPT !.pc = "seat_write",
                     !.count = slots[threads[th].slot_id].allocated_count]]
    /\ UNCHANGED <<tokens, slots, realloc_waitlists, ReallocFrame>>

\* self.allocated_count += 1: the write
SeatWrite(th) ==
    /\ threads[th].pc = "seat_write"
    /\ slots' = [slots EXCEPT ![threads[th].slot_id].allocated_count =
                     threads[th].count + 1]
    /\ threads' = [threads EXCEPT ![th].pc = "number"]
    /\ UNCHANGED <<tokens, realloc_waitlists, ReallocFrame>>

\* token.token_number = slot.allocated_count; token.calculate_estimated_time(...)
PromoteNumber(th) ==
    /\ threads[th].pc = "number"
    /\ LET slot == slots[threads[th].slot_id]
       IN tokens' = [tokens EXCEPT ![threads[th].next_token_id] =
              [@ EXCEPT !.token_number = slot.allocated_count,
                        !.estimated_time =
                            calculate_estimated_time(slot.start_time,
                                                     slot.allocated_count)]]
    /\ threads' = [threads EXCEPT ![th].pc = "confirm"]
    /\ UNCHANGED <<slots, realloc_waitlists, ReallocFrame>>

\* token.update_status('CONFIRMED'); return token.id
PromoteStatus(th) ==
    /\ threads[th].pc = "confirm"
    /\ tokens' = [tokens EXCEPT ![threads[th].next_token_id] =
                      update_status(@, "CONFIRMED")]
    /\ threads' = [threads EXCEPT ![th] =
           [@ EXCEPT !.pc = "done", !.returned = "PROMOTED"]]
    /\ UNCHANGED <<slots, realloc_waitlists, ReallocFrame>>

NextConcurrentRealloc ==
    \/ \E th \in Threads : BeginRealloc(th)
    \/ \E th \in Threads : RemoveTokenCheck(th)
    \/ \E th \in Threads : RemoveFromList(th)
    \/ \E th \in Threads : ReleaseRead(th)
    \/ \E th \in Threads : ReleaseWrite(th)
    \/ \E th \in Threads : SetLeftStatus(th)
    \/ \E th \in Threads : GetNext(th)
    \/ \E th \in Threads : LeaveSlotWaitlist(th)
    \/ \E th \in Threads : LeaveQueue(th)
    \/ \E th \in Threads : SeatCheck(th)
    \/ \E th \in Threads : SeatAppend(th)
    \/ \E th \in Threads : SeatRead(th)
    \/ \E th \in Threads : SeatWrite(th)
    \/ \E th \in Threads : PromoteNumber(th)
    \/ \E th \in Threads : PromoteStatus(th)

SpecConcurrentRealloc == InitConcurrentRealloc /\ [][NextConcurrentRealloc]_vars

\* ------------------------------------------------------------ properties
AllTokens == 1..Len(tokens)
TokensOf(slot_id) == {t \in AllTokens : tokens[t].slot_id = slot_id}
WaitlistedIn(slot_id) == {t \in TokensOf(slot_id) : tokens[t].status = "WAITLISTED"}
ConfirmedIn(slot_id) == {t \in TokensOf(slot_id) : tokens[t].status = "CONFIRMED"}
NoDuplicates(seq) == \A i, j \in 1..Len(seq) : seq[i] = seq[j] => i = j

\* C1: every slot's confirmed list holds at most max_capacity token ids
C1_ConfirmedWithinCapacity ==
    \A s \in Slots : Len(slots[s].tokens) <= slots[s].max_capacity

\* a full slot turned an allocation away to the waitlist
C1_Witness ==
    /\ result.op = "allocate" /\ result.status = "WAITLISTED"
    /\ \E s \in Slots :
        /\ slots[s].max_capacity > 0
        /\ Len(slots[s].tokens) = slots[s].max_capacity
        /\ result.token_id \in TokensOf(s)

\* C2 as claimed: a token is in its slot's confirmed list iff it is
\* Confirmed, and in the slot's waitlist iff it is Waitlisted
C2_MembershipMatchesStatus ==
    \A t \in AllTokens :
        LET slot == slots[tokens[t].slot_id]
        IN /\ Contains(slot.tokens, t) <=> tokens[t].status = "CONFIRMED"
           /\ Contains(slot.waitlist, t) <=> tokens[t].status = "WAITLISTED"

\* C2 as amended: a token is in its slot's confirmed list iff it is Confirmed
\* or Completed (a completed token keeps its capacity unit), and in the
\* slot's own waitlist iff it is Waitlisted
C2_MembershipMatchesStatusOrCompleted ==
    \A t \in AllTokens :
        LET slot == slots[tokens[t].slot_id]
        IN /\ Contains(slot.tokens, t) <=> tokens[t].status \in {"CONFIRMED", "COMPLETED"}
           /\ Contains(slot.waitlist, t) <=> tokens[t].status = "WAITLISTED"

\* a completed token sits in the confirmed list beside a waiting token,
\* after a waitlisted token was cancelled
C2_Witness ==
    /\ result.op = "cancel" /\ result.error = ""
    /\ \E t, c, w \in AllTokens :
        /\ tokens[t].status = "COMPLETED"
        /\ Contains(slots[tokens[t].slot_id].tokens, t)
        /\ tokens[c].status = "CANCELLED" /\ result.token_id = c
        /\ tokens[w].status = "WAITLISTED"

\* C3: no token id is in a slot's confirmed list and in its waitlist at the
\* same time, and no token id occurs twice in either list
C3_ListsDisjointNoDuplicates ==
    \A s \in Slots :
        /\ NoDuplicates(slots[s].tokens)
        /\ NoDuplicates(slots[s].waitlist)
        /\ \A t \in TokenIds : ~(Contains(slots[s].tokens, t) /\ Contains(slots[s].waitlist, t))

\* a demoted token was promoted back while another token waits
C3_Witness ==
    /\ result.promoted_token_id # None
    /\ \E s \in Slots :
        /\ Contains(slots[s].tokens, result.promoted_token_id)
        /\ slots[s].waitlist # <<>>

\* C4: every waitlist of a queue manager is sorted ascending by
\* (rank, arrival time)
SortedByRankThenArrival(entries) ==
    \A i, j \in 1..Len(entries) :
        i < j =>
            \/ entries[i].priority < entries[j].priority
            \/ /\ entries[i].priority = entries[j].priority
               /\ entries[i].timestamp <= entries[j].timestamp

C4_WaitlistSorted ==
    \A s \in Slots :
        /\ SortedByRankThenArrival(alloc_waitlists[s])
        /\ SortedByRankThenArrival(realloc_waitlists[s])

\* a later arrival of a more urgent rank stands ahead of an earlier one, and
\* two entries of one rank arrived at the same reading
C4_Witness ==
    \E s \in Slots :
        LET q == alloc_waitlists[s]
        IN /\ Len(q) = MaxQueue
           /\ \E i, j \in 1..Len(q) : i < j /\ q[i].timestamp > q[j].timestamp
           /\ \E i, j \in 1..Len(q) :
                 i < j /\ q[i].priority = q[j].priority
                       /\ q[i].timestamp = q[j].timestamp

\* C5: a token's status changes only along the edges of the state machine;
\* Cancelled, NoShow and Completed are never left
AllowedTransitions ==
    {<<"CONFIRMED", "CANCELLED">>, <<"WAITLISTED", "CANCELLED">>,
     <<"CONFIRMED", "NO_SHOW">>, <<"CONFIRMED", "COMPLETED">>,
     <<"CONFIRMED", "WAITLISTED">>, <<"WAITLISTED", "CONFIRMED">>}

C5_StatusTransitions ==
    [][\A t \in AllTokens :
          /\ t \in 1..Len(tokens')
          /\ \/ tokens'[t].status = tokens[t].status
             \/ <<tokens[t].status, tokens'[t].status>> \in AllowedTransitions]_vars

\* a no-show promoted a waiting token, with a cancelled and a completed token
\* or a demoted one around
C5_Witness ==
    /\ result.op = "mark_no_show" /\ result.promoted_token_id # None
    /\ tokens[result.token_id].status = "NO_SHOW"
    /\ tokens[result.promoted_token_id].status = "CONFIRMED"

\* arrival order among the waiting tokens of a slot: the slot appends a token
\* to its own waitlist at the moment the token becomes Waitlisted
ArrivedBefore(slot_id, a, b) ==
    /\ Contains(slots[slot_id].waitlist, a)
    /\ Contains(slots[slot_id].waitlist, b)
    /\ IndexOf(slots[slot_id].waitlist, a) < IndexOf(slots[slot_id].waitlist, b)

\* C6: cancelling or no-showing a Confirmed token of a slot that has a
\* Waitlisted token promotes one waiting token: the confirmed list keeps its
\* size and the call reports the promoted token id
C6_VacancyPromotesWaiting ==
    [][\A t \in AllTokens :
          LET s == tokens[t].slot_id
          IN (/\ tokens[t].status = "CONFIRMED"
              /\ tokens'[t].status \in {"CANCELLED", "NO_SHOW"}
              /\ WaitlistedIn(s) # {})
             => /\ Len(slots'[s].tokens) = Len(slots[s].tokens)
                /\ result'.promoted_token_id \in WaitlistedIn(s)
                /\ tokens'[result'.promoted_token_id].status = "CONFIRMED"]_vars

\* C7: a token that promote moves to Confirmed is the Waitlisted token of its
\* slot with the smallest (rank, arrival time)
C7_PromotesMostUrgent ==
    [][\A p \in AllTokens :
          (tokens[p].status = "WAITLISTED" /\ tokens'[p].status = "CONFIRMED")
          => \A w \in WaitlistedIn(tokens[p].slot_id) \ {p} :
                /\ ~(tokens[w].priority < tokens[p].priority)
                /\ ~(/\ tokens[w].priority = tokens[p].priority
                     /\ ArrivedBefore(tokens[p].slot_id, w, p))]_vars

\* C8: allocate on a slot with k confirmed ids and capacity c confirms the
\* token with number k + 1, appended to the confirmed list, when k < c, and
\* waitlists it without a number when k = c; three allocations of one rank
\* into a fresh slot of capacity 2 give Confirmed #1, Confirmed #2 and
\* Waitlisted at position 1
C8_AllocateConfirmsOrWaitlists ==
    [][(result'.op = "allocate" /\ Len(tokens') = Len(tokens) + 1)
       => LET t == Len(tokens')
              s == tokens'[t].slot_id
              k == Len(slots[s].tokens)
              c == slots[s].max_capacity
          IN /\ k <= c
             /\ result'.token_id = t
             /\ k < c => /\ tokens'[t].status = "CONFIRMED"
                         /\ result'.status = "CONFIRMED"
                         /\ tokens'[t].token_number = k + 1
                         /\ slots'[s].tokens = Append(slots[s].tokens, t)
             /\ k = c => /\ tokens'[t].status = "WAITLISTED"
                         /\ result'.status = "WAITLISTED"
                         /\ tokens'[t].token_number = None
                         /\ slots'[s].tokens = slots[s].tokens
             /\ (/\ c = 2 /\ t = 3
                 /\ slots[s].tokens = <<1, 2>>
                 /\ \A o \in {1, 2} : /\ tokens[o].status = "CONFIRMED"
                                      /\ tokens[o].priority = tokens'[t].priority)
                => /\ tokens'[1].token_number = 1 /\ tokens'[1].status = "CONFIRMED"
                   /\ tokens'[2].token_number = 2 /\ tokens'[2].status = "CONFIRMED"
                   /\ tokens'[3].status = "WAITLISTED"
                   /\ result'.position = 1]_vars

\* three walk-ins into a slot of capacity 2: #1, #2 and a waiting third
C8_Witness ==
    /\ result.op = "allocate" /\ result.status = "WAITLISTED" /\ result.position = 1
    /\ Len(tokens) = 3 /\ result.token_id = 3
    /\ slots[1].max_capacity = 2 /\ slots[1].tokens = <<1, 2>>
    /\ tokens[1].token_number = 1 /\ tokens[2].token_number = 2
    /\ \A t \in AllTokens : tokens[t].source = "WALK_IN"

\* the 1-indexed place of a token among the tokens of its slot that are
\* Waitlisted now, in (rank, arrival) order
PlaceAmongWaitlisted(t) ==
    1 + Cardinality({w \in WaitlistedIn(tokens[t].slot_id) \ {t} :
                        \/ tokens[w].priority < tokens[t].priority
                        \/ /\ tokens[w].priority = tokens[t].priority
                           /\ ArrivedBefore(tokens[t].slot_id, w, t)})

\* C9: the position allocate reports for a waitlisted token, and the
\* position the allocation service's queue reports for it afterwards, is its
\* place among the tokens of the slot that are Waitlisted now
C9_PositionCountsWaitlistedOnly ==
    /\ (result.op = "allocate" /\ result.status = "WAITLISTED")
       => result.position = PlaceAmongWaitlisted(result.token_id)
    /\ \A t \in AllTokens :
          (/\ tokens[t].status = "WAITLISTED"
           /\ get_waitlist_position(alloc_waitlists, tokens[t].slot_id, t) # None)
          => get_waitlist_position(alloc_waitlists, tokens[t].slot_id, t)
                 = PlaceAmongWaitlisted(t)

\* an emergency allocation for the slot, whatever it returns
EmergencyOn(slot_id) ==
    \E phone \in Phones, timestamp \in ClockReadings(FALSE) :
        AllocateEmergency(phone, slots[slot_id].doctor_id, slots[slot_id].start_time,
                          timestamp)

LeastUrgentConfirmed(slot_id) ==
    {v \in ConfirmedIn(slot_id) :
        \A o \in ConfirmedIn(slot_id) : tokens[o].priority <= tokens[v].priority}

\* C10: allocateEmergency on a full slot whose least-urgent confirmed token
\* is less urgent than an emergency demotes that token (Waitlisted, number
\* and estimated time cleared) and confirms the emergency token, leaving the
\* confirmed list at capacity (number 1 when the capacity is 1)
C10_EmergencyPreempts ==
    [][\A s \in Slots :
          (/\ EmergencyOn(s)
           /\ Len(slots[s].tokens) = slots[s].max_capacity
           /\ \E v \in LeastUrgentConfirmed(s) : tokens[v].priority > EMERGENCY_LEVEL)
          => /\ Len(tokens') = Len(tokens) + 1
             /\ \E v \in LeastUrgentConfirmed(s) :
                   /\ tokens'[v].status = "WAITLISTED"
                   /\ tokens'[v].token_number = None
                   /\ tokens'[v].estimated_time = None
             /\ tokens'[Len(tokens')].status = "CONFIRMED"
             /\ tokens'[Len(tokens')].source = "EMERGENCY"
             /\ Len(slots'[s].tokens) = slots[s].max_capacity
             /\ slots[s].max_capacity = 1 => tokens'[Len(tokens')].token_number = 1]_vars

\* the token that allocateEmergency picks as its victim on the slot
ChosenVictim(slot_id) == LowestPriorityToken(tokens, slots[slot_id].tokens)

\* C11: the victim allocateEmergency chooses on a full slot is a Confirmed
\* token whose rank is at least the rank of every other Confirmed token of
\* the slot
C11_VictimIsLeastUrgentConfirmed ==
    [][\A s \in Slots :
          (/\ EmergencyOn(s)
           /\ is_full(slots[s])
           /\ slots[s].tokens # <<>>
           /\ should_demote(tokens[ChosenVictim(s)].priority, EMERGENCY_LEVEL))
          => /\ tokens[ChosenVictim(s)].status = "CONFIRMED"
             /\ \A o \in ConfirmedIn(s) :
                   tokens[o].priority <= tokens[ChosenVictim(s)].priority]_vars

\* C12: allocateEmergency on a full slot none of whose Confirmed tokens is
\* less urgent than an emergency demotes nobody, leaves the confirmed list
\* alone and creates the emergency token Waitlisted, in the slot's waitlist,
\* at the emergency rank
C12_NoVictimWaitlistsEmergency ==
    [][\A s \in Slots :
          (/\ EmergencyOn(s)
           /\ is_full(slots[s])
           /\ \A o \in ConfirmedIn(s) : ~should_demote(tokens[o].priority,
                                                       EMERGENCY_LEVEL))
          => /\ Len(tokens') = Len(tokens) + 1
             /\ \A t \in AllTokens : tokens'[t] = tokens[t]
             /\ slots'[s].tokens = slots[s].tokens
             /\ tokens'[Len(tokens')].status = "WAITLISTED"
             /\ tokens'[Len(tokens')].priority = EMERGENCY_LEVEL
             /\ Contains(slots'[s].waitlist, Len(tokens'))
             /\ result'.demoted_token_id = None]_vars

\* promote runs on the slot in this step: one of its Confirmed tokens is
\* cancelled or marked no-show
PromoteRunsOn(slot_id) ==
    \E c \in ConfirmedIn(slot_id) : tokens'[c].status \in {"CANCELLED", "NO_SHOW"}

\* t was demoted through the reallocation service and is still waiting, and
\* no token has entered the slot's waitlist since
DemotedLast(slot_id, t) ==
    /\ tokens[t].status = "WAITLISTED"
    /\ Contains(EntryIds(realloc_waitlists[slot_id]), t)
    /\ slots[slot_id].waitlist # <<>>
    /\ slots[slot_id].waitlist[Len(slots[slot_id].waitlist)] = t

\* the token is Confirmed again, in the confirmed list, numbered by the
\* length of that list
RestoredByPromote(slot_id, t) ==
    /\ result'.promoted_token_id = t
    /\ tokens'[t].status = "CONFIRMED"
    /\ Contains(slots'[slot_id].tokens, t)
    /\ tokens'[t].token_number = Len(slots'[slot_id].tokens)

EngineState == <<tokens, slots, alloc_waitlists, realloc_waitlists>>

\* C14: cancel on a Cancelled, Completed or NoShow token fails with
\* InvalidTransition and leaves every token, confirmed list and waitlist as
\* it was
C14_CancelFinishedFails ==
    [][\A t \in AllTokens :
          (Cancel(t) /\ tokens[t].status \in {"CANCELLED", "COMPLETED", "NO_SHOW"})
          => /\ result'.op = "cancel"
             /\ result'.error = "InvalidTransition"
             /\ EngineState' = EngineState]_vars

\* a cancel was refused while a Cancelled, a Completed and a NoShow token
\* exist
C14_Witness ==
    /\ result.op = "cancel" /\ result.error = "InvalidTransition"
    /\ \A st \in {"CANCELLED", "COMPLETED", "NO_SHOW"} :
          \E t \in AllTokens : tokens[t].status = st

\* C15: markNoShow, complete and demote on a token that is not Confirmed fail
\* with InvalidTransition and change no token, slot or waitlist
C15_OnlyConfirmedAccepted ==
    [][\A t \in AllTokens :
          tokens[t].status # "CONFIRMED"
          => /\ MarkNoShow(t)
                => /\ result'.op = "mark_no_show"
                   /\ result'.error = "InvalidTransition"
                   /\ EngineState' = EngineState
             /\ Complete(t)
                => /\ result'.op = "complete"
                   /\ result'.error = "InvalidTransition"
                   /\ EngineState' = EngineState
             /\ (\E timestamp \in ClockReadings(FALSE) : Demote(t, timestamp))
                => /\ result'.op = "demote"
                   /\ result'.error = "InvalidTransition"
                   /\ EngineState' = EngineState]_vars

\* scenario D: markNoShow was refused while every token is Waitlisted
C15_Witness ==
    /\ result.op = "mark_no_show" /\ result.error = "InvalidTransition"
    /\ tokens # <<>>
    /\ \A t \in AllTokens : tokens[t].status = "WAITLISTED"

\* C16: a call that returns an error leaves the tokens, their statuses and
\* numbers, every confirmed list and every waitlist as they were
C16_AllOrNothing ==
    [][result'.error # "" => EngineState' = EngineState]_vars

\* an emergency allocation failed inside its demotion, on a slot that holds
\* a Confirmed token, and left no emergency token behind
C16_Witness ==
    /\ result.op = "allocate_emergency" /\ result.error = "InvalidTransition"
    /\ \E t \in AllTokens : tokens[t].status = "CONFIRMED"
    /\ \A t \in AllTokens : tokens[t].source # "EMERGENCY"

\* C17: when allocate fails because the slot is not found, no patient record
\* exists afterwards for a phone number that was unknown before the call
C17_FailedAllocateCreatesNoPatient ==
    [][(result'.op = "allocate" /\ result'.error = "SlotNotFound")
       => \A phone \in Phones :
             find_patient_by_phone(patients, phone) = None
             => find_patient_by_phone(patients', phone) = None]_vars

\* every seat of the slot is held by a Completed token
TakenUpByCompleted(slot_id) ==
    /\ slots[slot_id].max_capacity > 0
    /\ Len(slots[slot_id].tokens) = slots[slot_id].max_capacity
    /\ \A i \in 1..Len(slots[slot_id].tokens) :
          tokens[slots[slot_id].tokens[i]].status = "COMPLETED"

\* C18: complete on a Confirmed token sets it Completed and changes nothing
\* else (confirmed list, available count and waitlists stay, nobody is
\* promoted), and an allocate on a slot whose seats are all held by Completed
\* tokens is waitlisted
C18_CompleteKeepsSeat ==
    [][/\ \A t \in AllTokens :
             (Complete(t) /\ tokens[t].status = "CONFIRMED")
             => /\ tokens' = [tokens EXCEPT ![t].status = "COMPLETED"]
                /\ slots' = slots
                /\ \A s \in Slots : available_count(slots'[s]) = available_count(slots[s])
                /\ alloc_waitlists' = alloc_waitlists
                /\ realloc_waitlists' = realloc_waitlists
                /\ result'.error = "" /\ result'.promoted_token_id = None
       /\ \A s \in Slots :
             (/\ TakenUpByCompleted(s)
              /\ result'.op = "allocate" /\ Len(tokens') = Len(tokens) + 1
              /\ tokens'[Len(tokens')].slot_id = s)
             => /\ tokens'[Len(tokens')].status = "WAITLISTED"
                /\ slots'[s].tokens = slots[s].tokens]_vars

\* both seats of a slot are held by Completed tokens and the next allocate
\* was waitlisted
C18_Witness ==
    /\ result.op = "allocate" /\ result.status = "WAITLISTED"
    /\ tokens[result.token_id].status = "WAITLISTED"
    /\ LET s == tokens[result.token_id].slot_id
       IN TakenUpByCompleted(s) /\ slots[s].max_capacity = MaxCapacity

\* C19: cancel on a Waitlisted token sets it Cancelled and takes it out of
\* the slot's waitlist queue (no queue reports a position for it and promote
\* can no longer return it); the confirmed list stays and nobody is promoted
C19_CancelWaitlistedLeavesQueue ==
    [][\A t \in AllTokens :
          (Cancel(t) /\ tokens[t].status = "WAITLISTED")
          => LET s == tokens[t].slot_id
             IN /\ tokens'[t].status = "CANCELLED"
                /\ ~Contains(slots'[s].waitlist, t)
                /\ get_waitlist_position(alloc_waitlists', s, t) = None
                /\ get_waitlist_position(realloc_waitlists', s, t) = None
                /\ slots'[s].tokens = slots[s].tokens
                /\ result'.promoted_token_id = None
                /\ \A o \in AllTokens \ {t} : tokens'[o] = tokens[o]]_vars

\* both allocate calls have returned
BothReturned == \A th \in Threads : threads[th].pc = "done"

\* C20: two allocate calls that run at once on a slot with one vacancy end,
\* under every interleaving, with exactly one of the two tokens Confirmed and
\* in the confirmed list and the other Waitlisted; neither is Confirmed while
\* absent from the confirmed list, and the two do not get the same number
C20_ConcurrentAllocateOneSeat ==
    BothReturned
    => LET a == threads[1].token_id
           b == threads[2].token_id
           s == threads[1].slot_id
           Seated(t) == tokens[t].status = "CONFIRMED" /\ Contains(slots[s].tokens, t)
       IN /\ \/ Seated(a) /\ tokens[b].status = "WAITLISTED"
             \/ Seated(b) /\ tokens[a].status = "WAITLISTED"
          /\ \A t \in {a, b} :
                tokens[t].status = "CONFIRMED" => Contains(slots[s].tokens, t)
          /\ tokens[a].token_number # tokens[b].token_number

\* the calls that report a promotion, and the tokens that were waiting when
\* the two calls began (every token but the two that are leaving)
PromotionsReported == {th \in Threads : threads[th].returned = "PROMOTED"}
WereWaitlisted == (1..Len(tokens)) \ {threads[th].token_id : th \in Threads}

\* C21: while a cancel and a markNoShow on two Confirmed tokens of one slot
\* run at once, no token id is in the confirmed list twice and no more
\* promotions are made than tokens were waitlisted
C21_ConcurrentPromoteOnce ==
    /\ \A s \in Slots : NoDuplicates(slots[s].tokens)
    /\ Cardinality(PromotionsReported) <= Cardinality(WereWaitlisted)

\* an allocation for the slot, whatever it returns
AllocateOn(slot_id) ==
    \E phone \in Phones, source \in RequestSources, timestamp \in ClockReadings(FALSE) :
        Allocate(phone, slots[slot_id].doctor_id, slots[slot_id].start_time, source,
                 timestamp)

\* a call on the token, whatever it returns
CallOnToken(t) ==
    \/ Cancel(t)
    \/ MarkNoShow(t)
    \/ Complete(t)
    \/ \E timestamp \in ClockReadings(FALSE) : Demote(t, timestamp)

\* the step leaves every slot but a alone: its confirmed list and waitlist,
\* its queues, and the tokens bound to it
OtherSlotsUntouched(a) ==
    \A b \in Slots \ {a} :
        /\ slots'[b] = slots[b]
        /\ alloc_waitlists'[b] = alloc_waitlists[b]
        /\ realloc_waitlists'[b] = realloc_waitlists[b]
        /\ \A t \in TokensOf(b) : tokens'[t] = tokens[t]

\* the stores after the reallocation call op on token t
AfterCall(op, T, S, Q, t) ==
    CASE op = "cancel" -> cancel_token(T, S, Q, t)
      [] op = "mark_no_show" -> mark_no_show(T, S, Q, t)
      [] op = "complete" -> complete_token(T, S, Q, t)

\* the two calls, on tokens of different slots, give the same stores in
\* either order
Commute(op1, t1, op2, t2) ==
    LET a == AfterCall(op1, tokens, slots, realloc_waitlists, t1)
        ab == AfterCall(op2, a.tokens, a.slots, a.waitlists, t2)
        b == AfterCall(op2, tokens, slots, realloc_waitlists, t2)
        ba == AfterCall(op1, b.tokens, b.slots, b.waitlists, t1)
    IN /\ ab.tokens = ba.tokens
       /\ ab.slots = ba.slots
       /\ ab.waitlists = ba.waitlists

\* C22: a call that targets one slot, or a token bound to it, leaves the
\* confirmed list, the waitlist and the tokens of every other slot unchanged,
\* and calls on tokens of different slots give the same state in either order
C22_OtherSlotsUnchanged ==
    /\ [][/\ \A s \in Slots :
                (AllocateOn(s) \/ EmergencyOn(s)) => OtherSlotsUntouched(s)
          /\ \A t \in AllTokens :
                CallOnToken(t) => OtherSlotsUntouched(tokens[t].slot_id)]_vars
    /\ [](\A t1, t2 \in AllTokens :
             tokens[t1].slot_id # tokens[t2].slot_id
             => \A op1, op2 \in {"cancel", "mark_no_show", "complete"} :
                   Commute(op1, t1, op2, t2))

\* a token of the second slot was cancelled while the first slot holds a
\* Confirmed and a Waitlisted token
C22_Witness ==
    /\ result.op = "cancel" /\ result.error = ""
    /\ tokens[result.token_id].slot_id = 2
    /\ ConfirmedIn(1) # {} /\ WaitlistedIn(1) # {}

\* an allocation of either kind made with the phone number, whatever it
\* returns
RequestWithPhone(phone) ==
    \E doctor_id \in RequestDoctors, preferred_slot_time \in RequestTimes,
       timestamp \in ClockReadings(FALSE) :
        \/ \E source \in RequestSources :
              Allocate(phone, doctor_id, preferred_slot_time, source, timestamp)
        \/ AllocateEmergency(phone, doctor_id, preferred_slot_time, timestamp)

\* C23: no two patient records carry the same phone number, and a request
\* whose phone number matches an existing patient creates no record and binds
\* its token to that patient
C23_OnePatientPerPhone ==
    /\ [](\A p, q \in 1..Len(patients) :
             patients[p].phone = patients[q].phone => p = q)
    /\ [][\A phone \in Phones :
             (RequestWithPhone(phone) /\ find_patient_by_phone(patients, phone) # None)
             => /\ patients' = patients
                /\ Len(tokens') > Len(tokens)
                   => tokens'[Len(tokens')].patient_id
                          = find_patient_by_phone(patients, phone)]_vars

\* two patients are on record and one of them holds two of three tokens, the
\* last one made by an emergency request
C23_Witness ==
    /\ Len(patients) = 2 /\ Len(tokens) = 3
    /\ result.op = "allocate_emergency" /\ result.token_id = 3
    /\ tokens[3].patient_id = tokens[1].patient_id
    /\ tokens[2].patient_id # tokens[1].patient_id

\* C24: an emergency allocation for a doctor id that does not exist fails with
\* DoctorNotFound and creates no token
C24_EmergencyUnknownDoctor ==
    [][\A phone \in Phones, preferred_slot_time \in RequestTimes,
          timestamp \in ClockReadings(FALSE) :
          AllocateEmergency(phone, "DX", preferred_slot_time, timestamp)
          => /\ result'.error = "DoctorNotFound"
             /\ tokens' = tokens]_vars

\* C25: allocate reports the first failing step in the order source, doctor,
\* slot: InvalidSource for an unrecognized source whatever the doctor and the
\* time, DoctorNotFound for an unknown doctor whatever the time, SlotNotFound
\* for a time at which the doctor has no slot
C25_FirstFailingStep ==
    [][\A phone \in Phones, doctor_id \in RequestDoctors,
          preferred_slot_time \in RequestTimes, source \in RequestSources,
          timestamp \in ClockReadings(FALSE) :
          Allocate(phone, doctor_id, preferred_slot_time, source, timestamp)
          => result'.error =
                IF source \notin TOKEN_SOURCES THEN "InvalidSource"
                ELSE IF doctor_id \notin Doctors THEN "DoctorNotFound"
                ELSE IF \A s \in Slots : slots[s].start_time # preferred_slot_time
                THEN "SlotNotFound"
                ELSE ""]_vars

\* an allocate call made when the store holds a token has returned
\* InvalidSource
C25_Witness ==
    /\ result.op = "allocate" /\ result.error = "InvalidSource"
    /\ tokens # <<>>

\* C26: resolving a source that is not a configured category fails with
\* InvalidSource and returns no rank
C26_ResolveRejectsUnknown ==
    \A th \in Threads :
       (threads[th].op = "get_priority_for_source"
        /\ threads[th].source \notin TOKEN_SOURCES)
       => /\ threads[th].returned = "InvalidSource"
          /\ threads[th].priority = None

\* C27: should_demote says True exactly when the new priority is strictly
\* below the existing one, so never for equal priorities, and EMERGENCY has a
\* priority strictly below that of every other configured source
C27_StrictlyMoreUrgent ==
    /\ result.op = "should_demote"
       => (result.status = "True" <=> threads[2].priority < threads[1].priority)
    /\ \A source \in TOKEN_SOURCES \ {"EMERGENCY"} :
          PRIORITY_LEVELS["EMERGENCY"] < PRIORITY_LEVELS[source]

\* should_demote has said False for two equal priorities
C27_Witness ==
    /\ result.op = "should_demote" /\ result.status = "False"
    /\ threads[1].priority = threads[2].priority
    /\ threads[1].source \in TOKEN_SOURCES

\* C28: the token an emergency allocation has demoted is in the queue that
\* promotion consults, and when it is the only Waitlisted token of its slot
\* and a Confirmed token of the slot is then cancelled or marked no-show, it
\* is promoted back to Confirmed
C28_DemotedVictimIsPromotable ==
    /\ []((result.op = "allocate_emergency" /\ result.demoted_token_id # None)
          => LET v == result.demoted_token_id
             IN get_waitlist_position(realloc_waitlists, tokens[v].slot_id, v) # None)
    /\ [][\A t \in AllTokens :
             (/\ result.op = "allocate_emergency"
              /\ result.demoted_token_id # None
              /\ WaitlistedIn(tokens[t].slot_id) = {result.demoted_token_id}
              /\ tokens[t].status = "CONFIRMED"
              /\ (Cancel(t) \/ MarkNoShow(t)))
             => /\ tokens'[result.demoted_token_id].status = "CONFIRMED"
                /\ result'.promoted_token_id = result.demoted_token_id]_vars

\* the token ids queued for the slot in a queue manager's entry list
QueuedIn(Q, slot_id) == {Q[slot_id][i].token_id : i \in 1..Len(Q[slot_id])}

\* the token ids in the slot's own waitlist
SlotWaitlistIds(slot_id) ==
    {slots[slot_id].waitlist[i] : i \in 1..Len(slots[slot_id].waitlist)}

\* C29: the ids in a slot's own waitlist, the ids queued for the slot and the
\* ids of the slot's Waitlisted tokens are one set, whichever of the queue
\* managers (or both together) is taken for the slot's queue
C29_WaitlistViewsAgree ==
    \A s \in Slots :
       /\ SlotWaitlistIds(s) = WaitlistedIn(s)
       /\ \/ QueuedIn(alloc_waitlists, s) = WaitlistedIn(s)
          \/ QueuedIn(realloc_waitlists, s) = WaitlistedIn(s)
          \/ QueuedIn(alloc_waitlists, s) \cup QueuedIn(realloc_waitlists, s)
                = WaitlistedIn(s)

\* the slot has a vacancy and a Waitlisted token
WaitingBesideVacancy(T, S, slot_id) ==
    /\ Len(S[slot_id].tokens) < S[slot_id].max_capacity
    /\ \E t \in 1..Len(T) : T[t].slot_id = slot_id /\ T[t].status = "WAITLISTED"

\* C30: a call of allocate, allocateEmergency, cancel, markNoShow or complete
\* that returns, made when no slot has a vacancy together with a Waitlisted
\* token, leaves no slot with a vacancy together with a Waitlisted token
C30_NoWaitingBesideVacancy ==
    [][(/\ result'.op \in {"allocate", "allocate_emergency", "cancel",
                           "mark_no_show", "complete"}
        /\ result'.error = ""
        /\ \A s \in Slots : ~WaitingBesideVacancy(tokens, slots, s))
       => \A s \in Slots : ~WaitingBesideVacancy(tokens', slots', s)]_vars

\* C31: the sequence number of every Confirmed token is its 1-indexed
\* position in the confirmed list of its slot
C31_NumberIsPosition ==
    \A s \in Slots : \A t \in ConfirmedIn(s) :
       tokens[t].token_number = IndexOf(slots[s].tokens, t)

\* C32: no two Confirmed tokens of one slot have the same sequence number
C32_NumbersDistinct ==
    \A s \in Slots : \A t1, t2 \in ConfirmedIn(s) :
       t1 # t2 => tokens[t1].token_number # tokens[t2].token_number

\* C33: a Waitlisted token has no sequence number and no estimated time, and
\* a token that cancel or markNoShow took out of Confirmed has no sequence
\* number
C33_NumberOnlyWhileConfirmed ==
    \A t \in AllTokens :
       /\ tokens[t].status = "WAITLISTED"
          => tokens[t].token_number = None /\ tokens[t].estimated_time = None
       /\ tokens[t].status \in {"CANCELLED", "NO_SHOW"}
          => tokens[t].token_number = None

\* C34: the allocated counter of every slot is the length of its confirmed
\* list, so the available count is the capacity less that length and the
\* slot is full exactly when the available count is 0
C34_CounterIsListLength ==
    \A s \in Slots :
       /\ slots[s].allocated_count = Len(slots[s].tokens)
       /\ available_count(slots[s]) = slots[s].max_capacity - Len(slots[s].tokens)
       /\ is_full(slots[s]) <=> available_count(slots[s]) = 0

\* a cancel has taken one of two confirmed tokens out of a slot of two seats
\* and promoted nobody: one id and a count of one are left, one seat is free
C34_Witness ==
    /\ result.op = "cancel" /\ result.error = "" /\ result.promoted_token_id = None
    /\ slots[1].max_capacity = 2
    /\ Len(slots[1].tokens) = 1 /\ slots[1].allocated_count = 1
    /\ available_count(slots[1]) = 1 /\ ~is_full(slots[1])
    /\ tokens[result.token_id].token_number # None

\* C35: allocateEmergency on a full slot that holds a Confirmed token less
\* urgent than an emergency does not fail and ends with the emergency token
\* Confirmed, also when Completed tokens are in the confirmed list
C35_EmergencyNeverFails ==
    [][\A s \in Slots :
          (/\ EmergencyOn(s)
           /\ is_full(slots[s])
           /\ \E v \in ConfirmedIn(s) : tokens[v].priority > EMERGENCY_LEVEL)
          => /\ result'.error = ""
             /\ Len(tokens') = Len(tokens) + 1
             /\ tokens'[Len(tokens')].source = "EMERGENCY"
             /\ tokens'[Len(tokens')].status = "CONFIRMED"]_vars

\* C36: the token an emergency allocation demotes is, among the Confirmed
\* tokens of the slot that tie at the least-urgent rank, the one admitted
\* last (latest in the confirmed list, with the highest sequence number), and
\* it is the same token for every such call made in the same state
C36_DemotesMostRecentOfTies ==
    [][\A s \in Slots :
          (EmergencyOn(s) /\ result'.demoted_token_id # None)
          => LET v == result'.demoted_token_id
             IN /\ v = ChosenVictim(s)
                /\ v \in LeastUrgentConfirmed(s)
                /\ \A o \in LeastUrgentConfirmed(s) :
                      /\ IndexOf(slots[s].tokens, o) <= IndexOf(slots[s].tokens, v)
                      /\ tokens[o].token_number <= tokens[v].token_number]_vars

\* promote has moved the token into the slot's confirmed list in this step
PromotedIn(slot_id, p) ==
    /\ result'.op \in {"cancel", "mark_no_show"}
    /\ result'.promoted_token_id = p
    /\ tokens[p].slot_id = slot_id

\* C38: a token that promote returns was Waitlisted and is now Confirmed, in
\* neither the slot's waitlist nor a queue, last in the confirmed list and
\* numbered by the length of that list; with an empty queue promote reports
\* no promotion and the call changes nothing but the token it was made on
\* and that token's seat
C38_PromoteMovesHeadOrNothing ==
    [][\A s \in Slots :
          /\ \A p \in TokensOf(s) :
                PromotedIn(s, p)
                => /\ tokens[p].status = "WAITLISTED"
                   /\ tokens'[p].status = "CONFIRMED"
                   /\ ~Contains(slots'[s].waitlist, p)
                   /\ p \notin QueuedIn(realloc_waitlists', s)
                   /\ p \notin QueuedIn(alloc_waitlists', s)
                   /\ slots'[s].tokens =
                         Append(ListRemove(slots[s].tokens, result'.token_id), p)
                   /\ tokens'[p].token_number = Len(slots'[s].tokens)
          /\ \A c \in ConfirmedIn(s) :
                (/\ Cancel(c) \/ MarkNoShow(c)
                 /\ realloc_waitlists[s] = <<>>)
                => /\ result'.promoted_token_id = None
                   /\ slots'[s] = remove_token(slots[s], c)
                   /\ \A o \in AllTokens \ {c} : tokens'[o] = tokens[o]
                   /\ realloc_waitlists' = realloc_waitlists
                   /\ alloc_waitlists' = alloc_waitlists]_vars

\* promote has put a waiting token second in the confirmed list of a slot of
\* two seats, with number 2
C38_Witness ==
    /\ result.op \in {"cancel", "mark_no_show"} /\ result.promoted_token_id # None
    /\ LET p == result.promoted_token_id
           s == tokens[p].slot_id
       IN /\ tokens[p].status = "CONFIRMED"
          /\ Len(slots[s].tokens) = 2 /\ slots[s].tokens[2] = p
          /\ tokens[p].token_number = 2

\* C40: allocateEmergency on a slot that is full with an empty confirmed
\* list (capacity 0) does not fail and creates the emergency token
\* Waitlisted
C40_EmergencyOnEmptyFullSlot ==
    [][\A s \in Slots :
          (EmergencyOn(s) /\ is_full(slots[s]) /\ slots[s].tokens = <<>>)
          => /\ result'.error = ""
             /\ Len(tokens') = Len(tokens) + 1
             /\ tokens'[Len(tokens')].source = "EMERGENCY"
             /\ tokens'[Len(tokens')].status = "WAITLISTED"]_vars

\* C37: demote enqueues the token at the rank it has, with the time of the
\* demotion as its arrival time, and reports as its position its place in the
\* slot's waitlist: after every token already Waitlisted in the slot with the
\* same or a more urgent rank, before every less urgent one
C37_DemotedPlacedByRankThenArrival ==
    [][\A t \in AllTokens, timestamp \in ClockReadings(FALSE) :
          (Demote(t, timestamp) /\ tokens[t].status = "CONFIRMED")
          => LET s == tokens[t].slot_id
             IN /\ \E i \in 1..Len(realloc_waitlists'[s]) :
                      realloc_waitlists'[s][i] =
                          [token_id |-> t, priority |-> tokens[t].priority,
                           timestamp |-> timestamp]
                /\ result'.position =
                      1 + Cardinality({w \in WaitlistedIn(s) :
                                          tokens[w].priority <= tokens[t].priority})]_vars

====
